---- MODULE Spec2Model ----
(***************************************************************************)
(* Model of the trooper of eg/sg.go: a cube of cubes whose cells are       *)
(* attached and detached one at a time, full cubes merging into one cell,  *)
(* full panels into one slab and a full trooper into one part (neo).       *)
(*                                                                         *)
(* Lengths are exact integers in units of a quarter of the cube size       *)
(* (csize / 4): a cube center is at 2*m per axis, m in -lvl, -lvl+2 .. lvl,*)
(* and its eight cell centers are one unit off it on every axis.  A scene  *)
(* part is modelled by what identifies it: its kind and its location.      *)
(***************************************************************************)
EXTENDS Integers, Sequences, FiniteSets, TLC

\* ------------------------------------------------------------------ bounds
\* Highest trooper level the model constructs (the program takes keys 0..5).
MaxLevel == 3
\* Number of grow/shrink calls explored after the first change of direction.
MaxMix == 3
\* Number of evolve() calls after which grow() is no longer explored.
MaxEvolves == 2
\* reset(k) is explored for k up to the node's capacity plus this many.
MaxOver == 1
\* Largest k for which reset(k) is explored: the capacity of a level-3 panel
\* and one more.
MaxReset == 33
\* Number of direct calls explored on a cube or panel taken alone.
MaxCalls == 3
\* Number of grow/shrink calls explored in any order before a key is held.
MaxPre == 2

\* --------------------------------------------------------------- constants
\* c.ccnt, c.cmax = 0, 8
CubeMax == 8
\* the start count addCube gives a panel cube, and adds to the panel's count
PanelStart == 4

\* ---------------------------------------------------------------- helpers
SetMin(S) == CHOOSE m \in S : \A n \in S : m <= n

\* ------------------------------------------------------------------- sort
\* csort.Dtoc: squared distance of a cell center to the origin.
csortDtoc(v) == v[1] * v[1] + v[2] * v[2] + v[3] * v[3]

\* ssort.Dtoc: squared length of the projection of v on the normal s.
ssortDtoc(s, v) ==
    LET dot == v[1] * s[1] + v[2] * s[2] + v[3] * s[3]
        dx == s[1] * dot
        dy == s[2] * dot
        dz == s[3] * dot
    IN  dx * dx + dy * dy + dz * dz

\* The keys Less compares, one per center.
RECURSIVE csortKeys(_)
csortKeys(centers) ==
    IF centers = <<>> THEN <<>>
    ELSE <<csortDtoc(Head(centers))>> \o csortKeys(Tail(centers))

RECURSIVE ssortKeys(_, _)
ssortKeys(s, centers) ==
    IF centers = <<>> THEN <<>>
    ELSE <<ssortDtoc(s, Head(centers))>> \o ssortKeys(s, Tail(centers))

\* sort.Sort orders the eight centers by Less; centers of equal distance are
\* taken to keep their input order, as the insertion sort of short slices
\* leaves them.  sinkDown is one pass of it: the element at j moves down
\* while it is Less than its predecessor.
RECURSIVE sinkDown(_, _)
sinkDown(s, j) ==
    IF j > 1 /\ s[j].key < s[j - 1].key
    THEN sinkDown([s EXCEPT ![j] = s[j - 1], ![j - 1] = s[j]], j - 1)
    ELSE s

RECURSIVE insertionSort(_, _)
insertionSort(s, i) ==
    IF i > Len(s) THEN s ELSE insertionSort(sinkDown(s, i), i + 1)

\* The centers paired with their keys, and the centers of sorted pairs.
RECURSIVE withKeys(_, _)
withKeys(centers, keys) ==
    IF centers = <<>> THEN <<>>
    ELSE <<[key |-> Head(keys), v |-> Head(centers)]>> \o withKeys(Tail(centers), Tail(keys))

RECURSIVE withoutKeys(_)
withoutKeys(s) == IF s = <<>> THEN <<>> ELSE <<Head(s).v>> \o withoutKeys(Tail(s))

\* sort.Sort leaving the centers as newCube listed them.
sortCentersNone(centers, keys) == centers

\* sort.Sort(c.centers) under the keys given for each center.
sortCenters(centers, keys) == withoutKeys(insertionSort(withKeys(centers, keys), 2))

\* ------------------------------------------------------------------- cube
\* newCube: an empty cube at (x, y, z) with its eight cell centers unsorted.
newCube(x, y, z) ==
    [kind |-> "cube", ccnt |-> 0, cmax |-> CubeMax, c |-> <<x, y, z>>,
     cells |-> <<>>, fault |-> FALSE,
     centers |-> << <<x - 1, y - 1, z - 1>>, <<x - 1, y - 1, z + 1>>,
                    <<x - 1, y + 1, z - 1>>, <<x - 1, y + 1, z + 1>>,
                    <<x + 1, y - 1, z - 1>>, <<x + 1, y - 1, z + 1>>,
                    <<x + 1, y + 1, z - 1>>, <<x + 1, y + 1, z + 1>> >>]

\* addCell that creates no part.
cubeAddCellNone(c) == c

\* cube.addCell: a new cell part at the center picked by the count.
cubeAddCell(c) ==
    [c EXCEPT !.cells = Append(@, [part |-> "cell", at |-> c.centers[c.ccnt]])]

\* removeCell dropping the first cell instead of the last.
cubeRemoveFirst(c) ==
    IF Len(c.cells) = 0 THEN [c EXCEPT !.fault = TRUE] ELSE [c EXCEPT !.cells = Tail(@)]

\* cube.removeCell: drops the last cell; indexing an empty list panics.
cubeRemoveCell(c) ==
    IF Len(c.cells) = 0
    THEN [c EXCEPT !.fault = TRUE]
    ELSE [c EXCEPT !.cells = SubSeq(@, 1, Len(@) - 1)]

\* cube.trash: removeCell while there are cells.
RECURSIVE cubeTrash(_)
cubeTrash(c) == IF Len(c.cells) > 0 THEN cubeTrash(cubeRemoveCell(c)) ELSE c

\* merge that adds the merged part to the cells there are.
cubeMergeKeepCells(c) ==
    [c EXCEPT !.cells = Append(@, [part |-> "merged", at |-> c.c])]

\* cube.merge: all cells replaced by a single part at the cube's center.
cubeMerge(c) ==
    LET t == cubeTrash(c)
    IN  [t EXCEPT !.cells = Append(@, [part |-> "merged", at |-> c.c])]

\* ------------------------------------------------------------------- cbox
RECURSIVE attach(_), detach(_), reset(_, _), attachTimes(_, _)
RECURSIVE blockAddCell(_), blockRemoveCell(_), blockMerge(_), blockTrash(_)
RECURSIVE resetEach(_), firstAtMost(_, _, _), addEven(_, _)

\* attachOk refusing an empty box.
attachOkAboveZero(b) == b.ccnt > 0 /\ b.ccnt < b.cmax

\* The value attach returns: true when a cell was added.
attachOk(b) == b.ccnt >= 0 /\ b.ccnt < b.cmax

\* detachOk refusing a full box.
detachOkBelowFull(b) == b.ccnt > 0 /\ b.ccnt < b.cmax

\* detachOk letting an empty box through.
detachOkAtZero(b) == b.ccnt >= 0 /\ b.ccnt <= b.cmax

\* The value detach returns: true when a cell was detached.
detachOk(b) == b.ccnt > 0 /\ b.ccnt <= b.cmax

\* The hooks newCube and newBlock set on the cbox.
mergec(b) == IF b.kind = "cube" THEN cubeMerge(b) ELSE blockMerge(b)
trashc(b) == IF b.kind = "cube" THEN cubeTrash(b) ELSE blockTrash(b)
addc(b) == IF b.kind = "cube" THEN cubeAddCell(b) ELSE blockAddCell(b)
remc(b) == IF b.kind = "cube" THEN cubeRemoveCell(b) ELSE blockRemoveCell(b)

\* cbox.attach: the box after the call.
attach(b) ==
    IF attachOk(b)
    THEN LET n == [b EXCEPT !.ccnt = @ + 1]
         IN  IF n.ccnt = n.cmax THEN mergec(n) ELSE addc(n)
    ELSE b

\* detach taking a cell off a full box without demerging it.
detachNoDemerge(b) ==
    IF detachOk(b) THEN LET r == remc(b) IN [r EXCEPT !.ccnt = @ - 1] ELSE b

\* cbox.detach: the box after the call.
detach(b) ==
    IF detachOk(b)
    THEN IF b.ccnt = b.cmax
         THEN reset(b, b.cmax - 1)
         ELSE LET r == remc(b) IN [r EXCEPT !.ccnt = @ - 1]
    ELSE b

\* The loop of cbox.reset: attach, n times (a call attach refuses returns
\* false and leaves the box as it is).  The box after a call is bound to a
\* (one value, evaluated once) before the next call is made on it.
attachTimes(b, n) ==
    IF n <= 0 THEN b
    ELSE CHOOSE r \in {attachTimes(a, n - 1) : a \in {attach(b)}} : TRUE

\* reset that leaves the count as it was.
resetKeepCount(b, cellCount) ==
    attachTimes(trashc(b), IF cellCount > b.cmax THEN b.cmax ELSE cellCount)

\* cbox.reset: trash, count to 0, then attach min(cellCount, cmax) times.
reset(b, cellCount) ==
    LET t == trashc(b)
        z == [t EXCEPT !.ccnt = 0]
        n == IF cellCount > b.cmax THEN b.cmax ELSE cellCount
    IN  attachTimes(z, n)

\* edgeSort starting one cell short.
edgeSortShort(c, startCount) ==
    reset([c EXCEPT !.centers = sortCenters(@, csortKeys(@))], startCount - 1)

\* cube.edgeSort: centers closest to the origin first, then reset.
edgeSort(c, startCount) ==
    reset([c EXCEPT !.centers = sortCenters(@, csortKeys(@))], startCount)

\* cube.panelSort: centers closest to the plane of normal r first, then reset.
panelSort(c, r, startCount) ==
    reset([c EXCEPT !.centers = sortCenters(@, ssortKeys(r, @))], startCount)

\* ------------------------------------------------------------------ block
\* newBlock: a panel with no cubes.
newBlock(x, y, z, level) ==
    [kind |-> "block", ccnt |-> 0, cmax |-> (level - 1) * (level - 1) * 8,
     c |-> <<x, y, z>>, lvl |-> level, slab |-> FALSE, cubes |-> <<>>,
     fault |-> FALSE]

\* The axis tests block.addCube and block.merge make on the panel's center.
xPanel(b) == (b.c[1] > b.c[2] /\ b.c[1] > b.c[3]) \/ (b.c[1] < b.c[2] /\ b.c[1] < b.c[3])
yPanel(b) == (b.c[2] > b.c[1] /\ b.c[2] > b.c[3]) \/ (b.c[2] < b.c[1] /\ b.c[2] < b.c[3])
zPanel(b) == (b.c[3] > b.c[1] /\ b.c[3] > b.c[2]) \/ (b.c[3] < b.c[1] /\ b.c[3] < b.c[2])

\* addCube that does not count the cells of the new cube.
addCubeUncounted(b, x, y, z) ==
    LET c0 == newCube(x, y, z)
        c == IF xPanel(b) THEN panelSort(c0, <<1, 0, 0>>, PanelStart)
             ELSE IF yPanel(b) THEN panelSort(c0, <<0, 1, 0>>, PanelStart)
             ELSE IF zPanel(b) THEN panelSort(c0, <<0, 0, 1>>, PanelStart)
             ELSE c0
    IN  [b EXCEPT !.cubes = Append(@, c)]

\* block.addCube: a new cube sorted on the panel's axis and started with 4
\* cells; the panel's count goes up by 4.
addCube(b, x, y, z) ==
    LET c0 == newCube(x, y, z)
        c == IF xPanel(b) THEN panelSort(c0, <<1, 0, 0>>, PanelStart)
             ELSE IF yPanel(b) THEN panelSort(c0, <<0, 1, 0>>, PanelStart)
             ELSE IF zPanel(b) THEN panelSort(c0, <<0, 0, 1>>, PanelStart)
             ELSE c0
    IN  [b EXCEPT !.ccnt = @ + PanelStart, !.cubes = Append(@, c)]

\* The inner loop of block.addCell: the first cube from i on with at most
\* addeven cells, 0 for none.
firstAtMost(cubes, addeven, i) ==
    IF i > Len(cubes) THEN 0
    ELSE IF cubes[i].ccnt <= addeven THEN i
    ELSE firstAtMost(cubes, addeven, i + 1)

\* The outer loop of block.addCell, from fill level addeven on: attach to
\* the first cube the inner loop finds; without one the log line is reached.
addEven(b, addeven) ==
    IF addeven >= b.cubes[1].cmax THEN [b EXCEPT !.fault = TRUE]
    ELSE LET i == firstAtMost(b.cubes, addeven, 1)
         IN  IF i > 0 THEN [b EXCEPT !.cubes[i] = attach(@)]
             ELSE addEven(b, addeven + 1)

\* addCell filling the first cube that is not full.
blockAddCellFirst(b) ==
    LET hit == {i \in 1..Len(b.cubes) : attachOk(b.cubes[i])}
    IN  IF hit = {} THEN [b EXCEPT !.fault = TRUE]
        ELSE [b EXCEPT !.cubes[SetMin(hit)] = attach(@)]

\* block.addCell: attach to the first cube at or below the lowest fill
\* level (cubes[0] of a panel without cubes panics).
blockAddCell(b) ==
    IF Len(b.cubes) = 0 THEN [b EXCEPT !.fault = TRUE] ELSE addEven(b, 0)

\* block.removeCell: detach from the first cube that gives a cell up.
blockRemoveCell(b) ==
    LET hit == {i \in 1..Len(b.cubes) : detachOk(b.cubes[i])}
    IN  IF hit = {} THEN [b EXCEPT !.fault = TRUE]
        ELSE [b EXCEPT !.cubes[SetMin(hit)] = detach(@)]

\* The loop of block.trash: cube.reset(0) for every cube.
resetEach(cubes) ==
    IF cubes = <<>> THEN <<>> ELSE <<reset(Head(cubes), 0)>> \o resetEach(Tail(cubes))

\* trash that removes the slab and leaves the cubes.
blockTrashSlabOnly(b) == [b EXCEPT !.slab = FALSE]

\* block.trash: the slab goes and every cube is reset to 0.
blockTrash(b) == [b EXCEPT !.slab = FALSE, !.cubes = resetEach(@)]

\* block.merge: all cubes replaced by a single slab.
blockMerge(b) == [blockTrash(b) EXCEPT !.slab = TRUE]

\* ---------------------------------------------------------------- trooper
\* The n-th lattice point <<cx, cy, cz>> the loops of newTrooper visit.
latticePoint(n, level) ==
    LET w == level + 1
    IN  <<(n - 1) \div (w * w), ((n - 1) \div w) % w, (n - 1) % w>>

\* cx == 0 || cx == tr.lvl
outer(cv, level) == cv = 0 \/ cv = level

\* newCells of a lattice point: 1 for a corner, 2 for an edge, else 0.
newCells(p, level) ==
    LET ox == outer(p[1], level)
        oy == outer(p[2], level)
        oz == outer(p[3], level)
    IN  IF ox /\ oy /\ oz THEN 1
        ELSE IF (ox /\ oy) \/ (ox /\ oz) \/ (oy /\ oz) THEN 2
        ELSE 0

\* The location of the cube of a lattice point: mx * centerOffset per axis.
cubeAt(p, level) ==
    <<2 * (2 * p[1] - level), 2 * (2 * p[2] - level), 2 * (2 * p[3] - level)>>

\* The panel (index into bits) a side cube is added to, 0 for none.
panelOf(p, level) ==
    LET x == cubeAt(p, level)[1]
        y == cubeAt(p, level)[2]
        z == cubeAt(p, level)[3]
    IN  IF ~(outer(p[1], level) \/ outer(p[2], level) \/ outer(p[3], level)) THEN 0
        ELSE IF p[1] = level /\ x > y /\ x > z THEN 1
        ELSE IF p[1] = 0 /\ x < y /\ x < z THEN 2
        ELSE IF p[2] = level /\ y > x /\ y > z THEN 3
        ELSE IF p[2] = 0 /\ y < x /\ y < z THEN 4
        ELSE IF p[3] = level /\ z > x /\ z > y THEN 5
        ELSE IF p[3] = 0 /\ z < x /\ z < y THEN 6
        ELSE 0

\* The elements of a set of numbers in rising order.
inOrder(S) ==
    [i \in 1..Cardinality(S) |-> CHOOSE n \in S : Cardinality({m \in S : m < n}) = i - 1]

\* The lattice points that get a corner or edge cube, in visiting order.
edgePoints(level) ==
    inOrder({n \in 1..((level + 1) * (level + 1) * (level + 1)) :
                newCells(latticePoint(n, level), level) > 0})

\* The lattice points whose side cube goes to panel k, in visiting order.
sidePoints(k, level) ==
    inOrder({n \in 1..((level + 1) * (level + 1) * (level + 1)) :
                /\ newCells(latticePoint(n, level), level) = 0
                /\ panelOf(latticePoint(n, level), level) = k})

\* Panel b after addCube for each of the lattice points pts, in order.
RECURSIVE addCubes(_, _, _)
addCubes(b, pts, level) ==
    IF pts = <<>> THEN b
    ELSE LET at == cubeAt(latticePoint(Head(pts), level), level)
         IN  addCubes(addCube(b, at[1], at[2], at[3]), Tail(pts), level)

\* The corner or edge cube of lattice point n.
edgeCube(n, level) ==
    LET p == latticePoint(n, level)
        at == cubeAt(p, level)
    IN  edgeSort(newCube(at[1], at[2], at[3]), newCells(p, level))

\* newTrooper: the trooper at the starting size of the level.  The lattice
\* loops append a cube per corner and edge point to the six panels, and add
\* a cube to its panel per side point.
newTrooper(level) ==
    LET mid == level * level * level * 8
               - (level - 1) * (level - 1) * (level - 1) * 8
        pc == 2 * level
        panels == << newBlock(pc, 0, 0, level), newBlock(-pc, 0, 0, level),
                     newBlock(0, pc, 0, level), newBlock(0, -pc, 0, level),
                     newBlock(0, 0, pc, level), newBlock(0, 0, -pc, level) >>
        edges == edgePoints(level)
    IN  IF level = 0
        THEN [lvl |-> level, mid |-> mid, neo |-> FALSE, center |-> FALSE,
              bits |-> << edgeSort(newCube(0, 0, 0), 1) >>]
        ELSE [lvl |-> level, mid |-> mid, neo |-> FALSE, center |-> TRUE,
              bits |-> [k \in 1..6 |-> addCubes(panels[k], sidePoints(k, level), level)]
                       \o [i \in 1..Len(edges) |-> edgeCube(edges[i], level)]]

\* trooper.addCenter: the center part exists above level 0.
addCenter(t) == IF t.lvl > 0 THEN [t EXCEPT !.center = TRUE] ELSE t

\* trooper.health: the sum of the counts of the bits.
RECURSIVE sumCounts(_)
sumCounts(bits) == IF bits = <<>> THEN 0 ELSE Head(bits).ccnt + sumCounts(Tail(bits))

health(t) == sumCounts(t.bits)

\* trooper.trash: every bit trashed, center and neo removed.
RECURSIVE trashEach(_)
trashEach(bits) ==
    IF bits = <<>> THEN <<>> ELSE <<trashc(Head(bits))>> \o trashEach(Tail(bits))

\* trash that leaves the bits as they are.
trooperTrashKeepBits(t) == [t EXCEPT !.center = FALSE, !.neo = FALSE]

trooperTrash(t) == [t EXCEPT !.bits = trashEach(@), !.center = FALSE, !.neo = FALSE]

\* merge that adds neo without trashing the bits.
trooperMergeNoTrash(t) == addCenter([t EXCEPT !.neo = TRUE])

\* trooper.merge: everything replaced by the single part neo.
trooperMerge(t) == addCenter([trooperTrash(t) EXCEPT !.neo = TRUE])

\* evolve that never merges.
evolveNever(t) == t

\* trooper.evolve: merge unless already merged.
evolve(t) == IF ~t.neo THEN trooperMerge(t) ELSE t

\* devolve that removes the center part.
devolveTrash(t) == [t EXCEPT !.center = FALSE]

\* trooper.devolve: a placeholder, nothing changes.
devolve(t) == t

\* trooper.demerge: every bit reset to full, then one cell off the first bit.
RECURSIVE resetFull(_)
resetFull(bits) ==
    IF bits = <<>> THEN <<>>
    ELSE <<reset(Head(bits), Head(bits).cmax)>> \o resetFull(Tail(bits))

trooperDemerge(t) ==
    LET r == [addCenter(trooperTrash(t)) EXCEPT !.bits = resetFull(@)]
    IN  [r EXCEPT !.bits[1] = detach(@)]

\* The bits that take a cell, and those that give one up.
attachable(t) == {i \in 1..Len(t.bits) : attachOk(t.bits[i])}
detachable(t) == {i \in 1..Len(t.bits) : detachOk(t.bits[i])}

\* attach that goes on after a bit took the cell.
trooperAttachAll(t) ==
    IF attachable(t) # {}
    THEN [t EXCEPT !.bits = [i \in 1..Len(t.bits) |-> attach(t.bits[i])]]
    ELSE evolve(t)

\* trooper.attach: the first bit that takes the cell, else evolve.
trooperAttach(t) ==
    IF attachable(t) # {}
    THEN [t EXCEPT !.bits[SetMin(attachable(t))] = attach(@)]
    ELSE evolve(t)

\* trooper.detach: demerge when merged, else the first bit that gives a
\* cell up, else devolve.
trooperDetach(t) ==
    IF t.neo THEN trooperDemerge(t)
    ELSE IF detachable(t) # {}
    THEN [t EXCEPT !.bits[SetMin(detachable(t))] = detach(@)]
    ELSE devolve(t)

\* ------------------------------------------------------------------ state
VARIABLES
    tr,       \* sg.tr: the trooper
    last,     \* the last call made, its argument, what it returned and signalled,
              \* and tr (or the shape of box) before it; in a run of calls the
              \* health of tr before it and at the start of the run
    dir,      \* direction of the first run of calls since construction
    run,      \* number of grow calls of an unbroken first run of grows, else 0
    mix,      \* number of calls since the first change of direction
    evolves,  \* number of evolve() calls since construction
    box,      \* a cube or panel called directly through the box interface
    calls     \* number of direct calls made on box

vars == <<tr, last, dir, run, mix, evolves, box, calls>>

Levels == 0..MaxLevel

\* The troopers newTrooper builds, one per level (built once, used by every
\* construction).
Troopers == {newTrooper(level) : level \in Levels}

noCall(t) ==
    [op |-> "new", arg |-> t.lvl, ok |-> TRUE, evolve |-> FALSE, devolve |-> FALSE, pre |-> t]

\* sgtag.create: the state once a trooper is constructed.
Init ==
    \E t \in Troopers :
        /\ tr = t
        /\ last = noCall(t)
        /\ dir = "none"
        /\ run = 0
        /\ mix = 0
        /\ evolves = 0
        /\ box = "none"
        /\ calls = 0

\* The exploration bound: a first run of any length in one direction, then
\* at most MaxMix further calls.
step(d) ==
    IF mix = 0 /\ dir \in {"none", d}
    THEN /\ dir' = d
         /\ mix' = 0
         /\ run' = IF d = "grow" THEN run + 1 ELSE 0
    ELSE /\ mix < MaxMix
         /\ dir' = dir
         /\ mix' = mix + 1
         /\ run' = 0

\* sgtag.attach: key KP+ grows the trooper.
Grow ==
    LET ev == attachable(tr) = {}
    IN  /\ ev => evolves < MaxEvolves
        /\ step("grow")
        /\ tr' = trooperAttach(tr)
        /\ evolves' = IF ev THEN evolves + 1 ELSE evolves
        /\ last' = [op |-> "grow", arg |-> 0, ok |-> ~ev, evolve |-> ev,
                     devolve |-> FALSE, pre |-> tr]
        /\ UNCHANGED <<box, calls>>

\* sgtag.detach: key KP- shrinks the trooper.
Shrink ==
    LET dv == ~tr.neo /\ detachable(tr) = {}
    IN  /\ step("shrink")
        /\ tr' = trooperDetach(tr)
        /\ evolves' = evolves
        /\ last' = [op |-> "shrink", arg |-> 0, ok |-> ~dv, evolve |-> FALSE,
                     devolve |-> dv, pre |-> tr]
        /\ UNCHANGED <<box, calls>>

\* sgtag.setTr: keys 0..5 replace the trooper by a fresh one of that level.
SetTr ==
    \E t \in Troopers :
        /\ tr' = t
        /\ last' = noCall(t)
        /\ dir' = "none"
        /\ run' = 0
        /\ mix' = 0
        /\ evolves' = 0
        /\ UNCHANGED <<box, calls>>

Next == Grow \/ Shrink \/ SetTr

Spec == Init /\ [][Next]_vars

\* ------------------------------------------------- the box interface alone
\* A cube or panel of a fresh trooper, called directly: attach, detach and
\* reset in any order.  box.at is its place in tr.bits, box.b the box.
\* A box in its merged representation: a cube owning a merged part, a panel
\* owning a slab.
merged(b) ==
    IF b.kind = "cube" THEN \E i \in 1..Len(b.cells) : b.cells[i].part = "merged"
    ELSE b.slab

\* What a box looked like before a call: empty, merged or partly filled.
shape(b) ==
    IF b.ccnt = 0 THEN "empty" ELSE IF merged(b) THEN "merged" ELSE "partial"

boxCall(name, k, ok, b) ==
    [op |-> name, arg |-> k, ok |-> ok, evolve |-> FALSE, devolve |-> FALSE, pre |-> shape(b)]

\* The bits called directly: the panel of +x and the cubes of the
\* first two lattice points (a corner, then a corner or an edge).
BoxPicks(t) == {1, 7, 8} \cap (1..Len(t.bits))

InitBox ==
    \E t \in Troopers : \E i \in BoxPicks(t) :
        /\ tr = t
        /\ box = [at |-> i, b |-> t.bits[i]]
        /\ last = boxCall("new", i, TRUE, t.bits[i])
        /\ dir = "none"
        /\ run = 0
        /\ mix = 0
        /\ evolves = 0
        /\ calls = 0

\* box.attach()
BoxAttach ==
    /\ calls < MaxCalls
    /\ calls' = calls + 1
    /\ box' = [box EXCEPT !.b = attach(@)]
    /\ last' = boxCall("attach", 0, attachOk(box.b), box.b)
    /\ UNCHANGED <<tr, dir, run, mix, evolves>>

\* box.detach()
BoxDetach ==
    /\ calls < MaxCalls
    /\ calls' = calls + 1
    /\ box' = [box EXCEPT !.b = detach(@)]
    /\ last' = boxCall("detach", 0, detachOk(box.b), box.b)
    /\ UNCHANGED <<tr, dir, run, mix, evolves>>

\* The cell counts reset is called with on b.
ResetCounts(b) == {k \in 0..(b.cmax + MaxOver) : k <= MaxReset}

\* box.reset(k)
BoxReset ==
    \E k \in ResetCounts(box.b) :
        /\ calls < MaxCalls
        /\ calls' = calls + 1
        /\ box' = [box EXCEPT !.b = reset(@, k)]
        /\ last' = boxCall("reset", k, TRUE, box.b)
        /\ UNCHANGED <<tr, dir, run, mix, evolves>>

NextBox == BoxAttach \/ BoxDetach \/ BoxReset

SpecBox == InitBox /\ [][NextBox]_vars

\* ------------------------------------------------- a key held down (runs)
\* Update calls the handler of every key that is down, once per frame: a
\* held KP+ or KP- repeats grow or shrink.  After at most MaxPre calls in
\* any order (dir is "none", mix counts them) one of the two keys is held
\* (dir), run counting its calls and last.from keeping the health of the
\* trooper the run started from.  A run is followed until the trooper is
\* merged (grow) or no bit gives a cell up (shrink); at the end of a run of
\* grows the other key may take over.

\* What a run keeps of a trooper: its level, its health and whether it is
\* merged.
digest(t) == [lvl |-> t.lvl, health |-> health(t), neo |-> t.neo]

runCall(name, ok, ev, dv, t, from) ==
    [op |-> name, arg |-> 0, ok |-> ok, evolve |-> ev, devolve |-> dv,
     pre |-> digest(t), from |-> from]

InitRun ==
    \E t \in Troopers :
        /\ tr = t
        /\ last = runCall("new", TRUE, FALSE, FALSE, t, digest(t))
        /\ dir = "none"
        /\ run = 0
        /\ mix = 0
        /\ evolves = 0
        /\ box = "none"
        /\ calls = 0

\* sgtag.attach before a key is held.
PreGrow ==
    LET ev == attachable(tr) = {}
    IN  /\ dir = "none"
        /\ mix < MaxPre
        /\ mix' = mix + 1
        /\ tr' = trooperAttach(tr)
        /\ evolves' = IF ev THEN evolves + 1 ELSE evolves
        /\ last' = runCall("grow", ~ev, ev, FALSE, tr, digest(tr'))
        /\ UNCHANGED <<dir, run, box, calls>>

\* sgtag.detach before a key is held.
PreShrink ==
    LET dv == ~tr.neo /\ detachable(tr) = {}
    IN  /\ dir = "none"
        /\ mix < MaxPre
        /\ mix' = mix + 1
        /\ tr' = trooperDetach(tr)
        /\ last' = runCall("shrink", ~dv, FALSE, dv, tr, digest(tr'))
        /\ UNCHANGED <<dir, run, evolves, box, calls>>

\* KP+ or KP- goes down and stays down.
StartRun ==
    \E d \in {"grow", "shrink"} :
        /\ dir = "none"
        /\ dir' = d
        /\ run' = 0
        /\ last' = runCall("hold", TRUE, FALSE, FALSE, tr, digest(tr))
        /\ UNCHANGED <<tr, mix, evolves, box, calls>>

\* sgtag.attach of a frame with KP+ down.
RunGrow ==
    LET ev == attachable(tr) = {}
    IN  /\ dir = "grow"
        /\ ~tr.neo
        /\ run' = run + 1
        /\ tr' = trooperAttach(tr)
        /\ evolves' = IF ev THEN evolves + 1 ELSE evolves
        /\ last' = runCall("grow", ~ev, ev, FALSE, tr, last.from)
        /\ UNCHANGED <<dir, mix, box, calls>>

\* sgtag.detach of a frame with KP- down.
RunShrink ==
    LET dv == ~tr.neo /\ detachable(tr) = {}
    IN  /\ dir = "shrink"
        /\ ~dv
        /\ run' = run + 1
        /\ tr' = trooperDetach(tr)
        /\ last' = runCall("shrink", ~dv, FALSE, dv, tr, last.from)
        /\ UNCHANGED <<dir, mix, evolves, box, calls>>

\* KP+ is released on the merged trooper and KP- goes down.
Turn ==
    /\ dir = "grow"
    /\ tr.neo
    /\ dir' = "shrink"
    /\ run' = 0
    /\ last' = runCall("hold", TRUE, FALSE, FALSE, tr, digest(tr))
    /\ UNCHANGED <<tr, mix, evolves, box, calls>>

NextRun == PreGrow \/ PreShrink \/ StartRun \/ RunGrow \/ RunShrink \/ Turn

\* A key that is down is handled in every frame.
SpecRun == InitRun /\ [][NextRun]_vars /\ WF_vars(RunGrow) /\ WF_vars(RunShrink)

\* ================================================================= claims
\* The top-level bits of a trooper, and all its boxes: the bits and the
\* cubes of its panels.
Bits(t) == {t.bits[i] : i \in 1..Len(t.bits)}
Cubes(b) == {b.cubes[i] : i \in 1..Len(b.cubes)}
Nodes(t) == Bits(t) \cup UNION {Cubes(b) : b \in {n \in Bits(t) : n.kind = "block"}}

RECURSIVE sumCaps(_)
sumCaps(bits) == IF bits = <<>> THEN 0 ELSE Head(bits).cmax + sumCaps(Tail(bits))

RECURSIVE sumCells(_)
sumCells(cubes) == IF cubes = <<>> THEN 0 ELSE Len(Head(cubes).cells) + sumCells(Tail(cubes))

\* The parts a box owns, and the parts of the whole trooper.
parts(b) ==
    IF b.kind = "cube" THEN Len(b.cells)
    ELSE (IF b.slab THEN 1 ELSE 0) + sumCells(b.cubes)

RECURSIVE sumParts(_)
sumParts(bits) == IF bits = <<>> THEN 0 ELSE parts(Head(bits)) + sumParts(Tail(bits))

primitives(t) ==
    (IF t.neo THEN 1 ELSE 0) + (IF t.center THEN 1 ELSE 0) + sumParts(t.bits)

capacity(b, level) ==
    IF b.kind = "cube" THEN 8 ELSE (level - 1) * (level - 1) * 8

\* C1: in every state reached by grow and shrink from a trooper of any
\* level, every cube and panel has 0 <= count <= capacity, the capacity
\* being 8 for a cube and (L-1)^2 * 8 for a panel.
C1_CountWithinCapacity ==
    \A n \in Nodes(tr) :
        /\ n.cmax = capacity(n, tr.lvl)
        /\ 0 <= n.ccnt
        /\ n.ccnt <= n.cmax

\* grow was called on a trooper of level 2 or more with every bit full.
C1_Witness ==
    /\ last.op = "grow"
    /\ last.evolve
    /\ tr.lvl >= 2
    /\ \A n \in Bits(tr) : n.ccnt = n.cmax

\* attach() immediately followed by detach().
roundTrip(b) == detach(attach(b))

\* The lowest count among the cubes of a panel.
minCount(b) == SetMin({b.cubes[i].ccnt : i \in 1..Len(b.cubes)})

\* C2 as claimed: on every cube and panel with 0 <= count < capacity,
\* attach then detach restores the count and the parts, the per-cube counts
\* and cells of a panel included.
C2_Claimed ==
    \A n \in Nodes(tr) : (0 <= n.ccnt /\ n.ccnt < n.cmax) => roundTrip(n) = n

\* C2 amended: attach then detach restores a cube exactly, and restores the
\* count of a panel; the cubes of the panel are restored exactly when its
\* first cube has the lowest count (attach adds to the cube detach takes
\* from) or the attach fills the panel.
C2_RoundTrip ==
    \A n \in Nodes(tr) :
        (0 <= n.ccnt /\ n.ccnt < n.cmax) =>
            /\ roundTrip(n).ccnt = n.ccnt
            /\ n.kind = "cube" => roundTrip(n) = n
            /\ n.kind = "block" =>
                ((n.ccnt + 1 = n.cmax \/ n.cubes[1].ccnt = minCount(n)) <=> roundTrip(n) = n)

\* shrink undid the attach of the grow before it on a panel of several
\* cubes.
C2_Witness ==
    /\ last.op = "shrink"
    /\ \E i \in 1..Len(tr.bits) :
        /\ tr.bits[i].kind = "block"
        /\ Len(tr.bits[i].cubes) > 1
        /\ tr.bits[i] # last.pre.bits[i]
        /\ attach(tr.bits[i]) = last.pre.bits[i]
        /\ roundTrip(tr.bits[i]) = tr.bits[i]

\* The box called directly and, for a panel, its cubes.
BoxNodes == {box.b} \cup (IF box.b.kind = "block" THEN Cubes(box.b) ELSE {})

\* C3 as claimed: detach on any cube or panel with count == capacity leaves
\* count == capacity - 1 and no merged representation.
C3_Claimed ==
    \A n \in BoxNodes :
        n.ccnt = n.cmax => detach(n).ccnt = n.cmax - 1 /\ ~merged(detach(n))

\* C3 amended: the same for every box of capacity above 0 (all cubes, and
\* the panels of level 2 and up).
C3_DetachFromFull ==
    /\ \A n \in BoxNodes :
        (n.ccnt = n.cmax /\ n.cmax > 0) =>
            LET d == detach(n)
            IN  detachOk(n) /\ d.ccnt = n.cmax - 1 /\ ~merged(d)
    /\ (last.op = "detach" /\ last.pre = "merged") =>
            /\ last.ok
            /\ box.b.ccnt = box.b.cmax - 1
            /\ ~merged(box.b)

\* detach was called on a merged panel of several cubes, which lost its slab.
C3_Witness ==
    /\ last.op = "detach"
    /\ last.pre = "merged"
    /\ box.b.kind = "block"
    /\ Len(box.b.cubes) > 1
    /\ box.b.ccnt = box.b.cmax - 1
    /\ ~box.b.slab

\* C4: a shrink of a fully merged trooper (neo present) removes neo and
\* leaves health one below the sum of the capacities of the bits.
C4_OneBelowFull ==
    (last.op = "shrink" /\ last.pre.neo) =>
        /\ ~tr.neo
        /\ health(tr) = sumCaps(tr.bits) - 1

\* C5: eight grows in a row on a fresh trooper of level 0 leave exactly one
\* part under the trooper, the merged one, and evolve was called once.
C5_EightGrows ==
    (tr.lvl = 0 /\ dir = "grow" /\ mix = 0 /\ run = 8) =>
        /\ primitives(tr) = 1
        /\ tr.neo
        /\ evolves = 1

C5_Witness == tr.lvl = 0 /\ dir = "grow" /\ mix = 0 /\ run = 8 /\ last.op = "grow"

C7_HealthAboveLevel0 ==
    (last.op = "new" /\ tr.lvl > 0) =>
        LET L == tr.lvl
            top(k) == {i \in 1..Len(tr.bits) :
                          tr.bits[i].kind = "cube" /\ tr.bits[i].ccnt = k}
            panels == {i \in 1..Len(tr.bits) : tr.bits[i].kind = "block"}
        IN  /\ health(tr) = L * L * L * 8 - (L - 1) * (L - 1) * (L - 1) * 8
            /\ health(tr) = tr.mid
            /\ Cardinality(top(1)) = 8
            /\ Cardinality(top(2)) = 12 * (L - 1)
            /\ panels = 1..6
            /\ Len(tr.bits) = 6 + 8 + 12 * (L - 1)
            /\ \A i \in panels :
                /\ Len(tr.bits[i].cubes) = (L - 1) * (L - 1)
                /\ tr.bits[i].ccnt = 4 * (L - 1) * (L - 1)
                /\ \A c \in Cubes(tr.bits[i]) : c.ccnt = 4

C7_Witness == last.op = "new" /\ tr.lvl >= 2

\* The sum of the counts of the cubes of a panel.
childSum(b) == sumCounts(b.cubes)

\* C8 as claimed: the count of every panel is the sum of the counts of its
\* cubes.
C8_Claimed ==
    \A b \in Bits(tr) : b.kind = "block" => b.ccnt = childSum(b)

\* C8 amended: the count of a panel below capacity is the sum of the counts
\* of its cubes; a panel at capacity keeps count == capacity while its
\* cubes are all reset to 0.
C8_PanelCount ==
    \A b \in Bits(tr) :
        b.kind = "block" =>
            IF b.ccnt < b.cmax
            THEN b.ccnt = childSum(b) /\ ~b.slab
            ELSE b.ccnt = b.cmax /\ \A c \in Cubes(b) : c.ccnt = 0 /\ c.cells = <<>>

\* grow filled the first panel, and the second is one short of full.
C8_Witness ==
    /\ last.op = "grow"
    /\ tr.lvl >= 2
    /\ tr.bits[1].slab
    /\ tr.bits[2].ccnt = tr.bits[2].cmax - 1
    /\ tr.bits[2].ccnt = childSum(tr.bits[2])

\* A cube holding n cells: the first n of its sorted centers, or when full
\* the one merged part at its own center.
cubeOf(c, n) ==
    [c EXCEPT !.ccnt = n,
              !.fault = FALSE,
              !.cells = IF n = c.cmax THEN << [part |-> "merged", at |-> c.c] >>
                        ELSE [i \in 1..n |-> [part |-> "cell", at |-> c.centers[i]]]]

\* A panel holding n cells: dealt out one at a time to its cubes in turn, or
\* when full the slab and empty cubes.
blockOf(b, n) ==
    LET M == Len(b.cubes)
        share(j) == IF n = b.cmax THEN 0
                    ELSE (n \div M) + (IF j <= n % M THEN 1 ELSE 0)
    IN  [b EXCEPT !.ccnt = n,
                  !.fault = FALSE,
                  !.slab = (n = b.cmax /\ n > 0),
                  !.cubes = [j \in 1..M |-> cubeOf(b.cubes[j], share(j))]]

boxOf(b, n) == IF b.kind = "cube" THEN cubeOf(b, n) ELSE blockOf(b, n)

\* C9: reset(k), k >= 0, from any state of a cube or panel leaves it as
\* min(k, capacity) attach calls leave the empty box: count min(k,
\* capacity), and the same parts and per-cube counts.
C9_ResetIsAttachFromEmpty ==
    last.op = "reset" =>
        LET b0 == tr.bits[box.at]
            n == IF last.arg > b0.cmax THEN b0.cmax ELSE last.arg
        IN  /\ box.b.ccnt = n
            /\ box.b = attachTimes(boxOf(b0, 0), n)
            /\ box.b = boxOf(b0, n)

\* reset(k), 0 < k < capacity, was called on a merged panel of several
\* cubes.
C9_Witness ==
    /\ last.op = "reset"
    /\ last.pre = "merged"
    /\ box.b.kind = "block"
    /\ Len(box.b.cubes) > 1
    /\ last.arg > 0
    /\ last.arg < box.b.cmax
    /\ box.b.ccnt = last.arg

\* C10: when some bit is below capacity, grow adds 1 to the count of the
\* first such bit (the six panels come first, then the cubes), leaves every
\* other bit as it was, and health goes up by 1.
C10_GrowFirstFit ==
    (last.op = "grow" /\ attachable(last.pre) # {}) =>
        LET i == SetMin(attachable(last.pre))
        IN  /\ \A j \in 1..(i - 1) : last.pre.bits[j].ccnt = last.pre.bits[j].cmax
            /\ tr.bits[i].ccnt = last.pre.bits[i].ccnt + 1
            /\ \A j \in 1..Len(tr.bits) : j # i => tr.bits[j] = last.pre.bits[j]
            /\ Len(tr.bits) = Len(last.pre.bits)
            /\ health(tr) = health(last.pre) + 1
            /\ ~last.evolve
            /\ tr.lvl > 0 =>
                \A j \in 1..Len(tr.bits) : (tr.bits[j].kind = "block") = (j <= 6)

\* grow went to a cube behind full panels and full cubes.
C10_Witness ==
    /\ last.op = "grow"
    /\ tr.lvl >= 2
    /\ attachable(last.pre) # {}
    /\ SetMin(attachable(last.pre)) > 7

\* C11: when every bit has count 0 and neo is absent, shrink changes no
\* count and no part, and calls devolve (once: the call is the last
\* statement of detach, behind the loop over the bits).
C11_ShrinkWhenEmpty ==
    (/\ last.op = "shrink"
     /\ ~last.pre.neo
     /\ \A b \in Bits(last.pre) : b.ccnt = 0) =>
        /\ tr = last.pre
        /\ last.devolve
        /\ ~last.ok
        /\ ~last.evolve

\* shrink was called on an empty trooper of level 1 or more.
C11_Witness ==
    /\ last.op = "shrink"
    /\ tr.lvl >= 1
    /\ ~last.pre.neo
    /\ health(last.pre) = 0
    /\ last.devolve

\* The reference normal of the cubes of a panel, <<0, 0, 0>> standing for
\* the cubes sorted by their distance to the origin.
radial == <<0, 0, 0>>
panelAxis(b) ==
    IF xPanel(b) THEN <<1, 0, 0>>
    ELSE IF yPanel(b) THEN <<0, 1, 0>>
    ELSE IF zPanel(b) THEN <<0, 0, 1>>
    ELSE radial

\* The metric of a cube: csort.Dtoc, or ssort.Dtoc on the normal r.
dtoc(r, v) == IF r = radial THEN csortDtoc(v) ELSE ssortDtoc(r, v)

\* The eight candidate cell centers of a cube.
candidates(c) ==
    {<<c.c[1] + dx, c.c[2] + dy, c.c[3] + dz>> : dx \in {-1, 1}, dy \in {-1, 1}, dz \in {-1, 1}}

\* The centers of the cells a cube owns.
materialized(c) == {c.cells[i].at : i \in 1..Len(c.cells)}

\* A cube below capacity owns count discrete cells, each at a candidate
\* center at least as close under the metric as every center without a
\* cell, the later added never the closer; detach takes the last added cell
\* and attach adds behind the cells there are.
closestFirst(c, r) ==
    LET rest == candidates(c) \ materialized(c)
        restKeys == {dtoc(r, v) : v \in rest}
        keys == [i \in 1..Len(c.cells) |-> dtoc(r, c.cells[i].at)]
    IN  /\ Len(c.centers) = 8
        /\ {c.centers[i] : i \in 1..8} = candidates(c)
        /\ c.ccnt < 8 =>
            /\ Len(c.cells) = c.ccnt
            /\ Cardinality(rest) = 8 - c.ccnt
            /\ \A i \in 1..Len(c.cells) :
                /\ c.cells[i].part = "cell"
                /\ c.cells[i].at \in candidates(c)
                /\ \A k \in restKeys : keys[i] <= k
                /\ i > 1 => keys[i - 1] <= keys[i]
            /\ c.ccnt > 0 => detach(c).cells = SubSeq(c.cells, 1, c.ccnt - 1)
            /\ c.ccnt < 7 =>
                /\ Len(attach(c).cells) = c.ccnt + 1
                /\ SubSeq(attach(c).cells, 1, c.ccnt) = c.cells

\* Bit i, or with j > 0 cube j of panel i, was built or changed by the last
\* call: every one at construction and at a change of level, and otherwise
\* those that differ from what was there before the call.
touched(i, j) ==
    \/ last.op = "new"
    \/ last.pre.lvl # tr.lvl
    \/ Len(last.pre.bits) # Len(tr.bits)
    \/ IF j = 0 THEN last.pre.bits[i] # tr.bits[i]
       ELSE \/ Len(last.pre.bits[i].cubes) # Len(tr.bits[i].cubes)
            \/ last.pre.bits[i].cubes[j] # tr.bits[i].cubes[j]

\* C12: every cube with count k < 8 owns exactly k discrete cells, closest
\* first under its metric (distance to the origin for corner and edge cubes,
\* projection on the panel axis for panel cubes), removed in reverse order
\* of addition; a fresh edge cube (edgeSort(2)) owns exactly 2 cells and a
\* fresh corner cube 1.  A cube no call has touched is the cube of the
\* state before, so the cubes of every state are covered.
C12_ClosestFirst ==
    /\ \A i \in 1..Len(tr.bits) :
        IF tr.bits[i].kind = "cube"
        THEN touched(i, 0) => closestFirst(tr.bits[i], radial)
        ELSE touched(i, 0) =>
                \A j \in 1..Len(tr.bits[i].cubes) :
                    touched(i, j) => closestFirst(tr.bits[i].cubes[j], panelAxis(tr.bits[i]))
    /\ last.op = "new" =>
        \A i \in 1..Len(tr.bits) :
            tr.bits[i].kind = "cube" =>
                /\ tr.bits[i].ccnt = (IF tr.lvl = 0 THEN 1
                                      ELSE newCells(latticePoint(edgePoints(tr.lvl)[i - 6], tr.lvl), tr.lvl))
                /\ Len(tr.bits[i].cells) = tr.bits[i].ccnt

\* grow added a third cell to an edge cube of a trooper of level 2 or more.
C12_Witness ==
    /\ last.op = "grow"
    /\ tr.lvl >= 2
    /\ \E i \in 7..Len(tr.bits) :
        /\ last.pre.bits[i].ccnt = 2
        /\ tr.bits[i].ccnt = 3
        /\ Len(tr.bits[i].cells) = 3

\* C13: on every cube and panel attach returns false exactly when count ==
\* capacity and then changes nothing; otherwise it returns true and the
\* count goes up by exactly 1.
C13_AttachReturn ==
    /\ \A n \in BoxNodes :
        /\ attachOk(n) <=> n.ccnt # n.cmax
        /\ ~attachOk(n) => attach(n) = n
        /\ attachOk(n) => attach(n).ccnt = n.ccnt + 1
    /\ (last.op = "attach" /\ ~last.ok) =>
        /\ box.b.ccnt = box.b.cmax
        /\ last.pre = shape(box.b)
    /\ (last.op = "attach" /\ last.ok) => box.b.ccnt > 0

\* attach was called on a merged panel of several cubes and refused.
C13_Witness ==
    /\ last.op = "attach"
    /\ ~last.ok
    /\ last.pre = "merged"
    /\ box.b.kind = "block"
    /\ Len(box.b.cubes) > 1
    /\ box.b.slab

\* C14: on every cube and panel detach returns false exactly when count ==
\* 0 and then changes nothing; otherwise it returns true and the count goes
\* down by exactly 1.
C14_DetachReturn ==
    /\ \A n \in BoxNodes :
        /\ detachOk(n) <=> n.ccnt # 0
        /\ ~detachOk(n) => detach(n) = n
        /\ detachOk(n) => detach(n).ccnt = n.ccnt - 1
    /\ (last.op = "detach" /\ ~last.ok) =>
        /\ box.b.ccnt = 0
        /\ last.pre = "empty"
    /\ (last.op = "detach" /\ last.ok) => box.b.ccnt < box.b.cmax

\* detach was called on an emptied panel of several cubes and refused.
C14_Witness ==
    /\ last.op = "detach"
    /\ ~last.ok
    /\ last.pre = "empty"
    /\ box.b.kind = "block"
    /\ Len(box.b.cubes) > 1
    /\ box.b.ccnt = 0
    /\ calls > 1

\* The two representations of a cube: full with the one merged part at its
\* own center, or below capacity with discrete cells only.
twoForms(c) ==
    IF c.ccnt = c.cmax
    THEN c.cells = << [part |-> "merged", at |-> c.c] >>
    ELSE /\ c.ccnt < c.cmax
         /\ Len(c.cells) = c.ccnt
         /\ \A i \in 1..Len(c.cells) : c.cells[i].part = "cell"

\* The cubes of a trooper: the top-level ones and those of the panels.
AllCubes(t) == {n \in Nodes(t) : n.kind = "cube"}

\* C15 as claimed: in every state, neo present or not, every cube is full
\* with one merged part or below capacity with discrete cells only.
C15_Claimed == \A c \in AllCubes(tr) : twoForms(c)

\* C15 amended: that holds while neo is absent; while neo is present every
\* top-level cube keeps count 8 and owns no part at all, and every panel
\* cube has count 0 and owns none.
C15_TwoRepresentations ==
    /\ ~tr.neo => \A c \in AllCubes(tr) : twoForms(c)
    /\ tr.neo =>
        /\ \A b \in Bits(tr) : b.kind = "cube" => b.ccnt = b.cmax /\ b.cells = <<>>
        /\ \A b \in Bits(tr) : b.kind = "block" =>
            \A c \in Cubes(b) : c.ccnt = 0 /\ c.cells = <<>>

\* shrink took a trooper of level 2 or more out of neo: its cubes are
\* merged again but for the panel cubes of the first panel.
C15_Witness ==
    /\ last.op = "shrink"
    /\ last.pre.neo
    /\ tr.lvl >= 2
    /\ \A i \in 7..Len(tr.bits) : Len(tr.bits[i].cells) = 1 /\ tr.bits[i].ccnt = 8
    /\ \A i \in 7..Len(tr.bits) : last.pre.bits[i].cells = <<>> /\ last.pre.bits[i].ccnt = 8

\* The counts of the cubes of a panel differ pairwise by at most 1.
even(b) ==
    \A i, j \in 1..Len(b.cubes) : b.cubes[i].ccnt - b.cubes[j].ccnt <= 1

\* The panels of a trooper that are not merged.
openPanels(t) == {i \in 1..Len(t.bits) : t.bits[i].kind = "block" /\ ~t.bits[i].slab}

\* C16 as claimed: at level 3 and up, after any sequence of grow and
\* shrink, the counts of the cubes of a panel that is not merged differ
\* pairwise by at most 1.
C16_Claimed ==
    tr.lvl >= 3 => \A i \in openPanels(tr) : even(tr.bits[i])

\* C16 amended: that holds in the states reached from construction by grow
\* alone, and a grow that goes to a panel adds to its first cube of the
\* lowest count; shrink takes from the first cube that is not empty.
C16_GrowKeepsEven ==
    tr.lvl >= 3 =>
        /\ (dir \in {"none", "grow"} /\ mix = 0) =>
            \A i \in openPanels(tr) : even(tr.bits[i])
        /\ last.op = "grow" =>
            \A i \in openPanels(tr) :
                tr.bits[i].ccnt > last.pre.bits[i].ccnt =>
                    LET old == last.pre.bits[i].cubes
                        new == tr.bits[i].cubes
                        low == {j \in 1..Len(old) : old[j].ccnt = minCount(last.pre.bits[i])}
                    IN  /\ new[SetMin(low)].ccnt = old[SetMin(low)].ccnt + 1
                        /\ \A j \in 1..Len(old) : j # SetMin(low) => new[j] = old[j]
        /\ (last.op = "shrink" /\ ~last.pre.neo) =>
            \A i \in openPanels(last.pre) :
                tr.bits[i].ccnt < last.pre.bits[i].ccnt =>
                    LET old == last.pre.bits[i].cubes
                        new == tr.bits[i].cubes
                        full == {j \in 1..Len(old) : old[j].ccnt > 0}
                    IN  /\ new[SetMin(full)].ccnt = old[SetMin(full)].ccnt - 1
                        /\ \A j \in 1..Len(old) : j # SetMin(full) => new[j] = old[j]

\* grow went to a cube of a panel of several cubes in an unbroken run of
\* grows, behind cubes already one ahead.
C16_Witness ==
    /\ last.op = "grow"
    /\ tr.lvl >= 3
    /\ dir = "grow"
    /\ mix = 0
    /\ \E i \in openPanels(tr) :
        /\ tr.bits[i] # last.pre.bits[i]
        /\ tr.bits[i].cubes[1] = last.pre.bits[i].cubes[1]
        /\ tr.bits[i].cubes[1].ccnt > minCount(last.pre.bits[i])

\* C17: under grow and shrink at any level neither "should never reach
\* here" line of a panel is reached, no panel without cubes is asked for a
\* cell, and no cube's removeCell is called with an empty cell list.
C17_NeverReached == \A n \in Nodes(tr) : ~n.fault

\* After a change of direction shrink took a cell from a panel of several
\* cubes that was neither empty nor full.
C17_Witness ==
    /\ last.op = "shrink"
    /\ tr.lvl >= 3
    /\ mix >= 1
    /\ last.pre.bits[1].ccnt > 0
    /\ last.pre.bits[1].ccnt < last.pre.bits[1].cmax
    /\ tr.bits[1].ccnt = last.pre.bits[1].ccnt - 1
    /\ sumCells(tr.bits[1].cubes) < sumCells(last.pre.bits[1].cubes)

\* C18: on a trooper of level 2 or more that is not merged, no shrink
\* lowers the count of a panel while a corner or edge cube has count > 0.
C18_EdgesFirst ==
    (last.op = "shrink" /\ ~last.pre.neo /\ tr.lvl >= 2) =>
        \A i \in 1..Len(tr.bits) :
            (tr.bits[i].kind = "block" /\ tr.bits[i].ccnt < last.pre.bits[i].ccnt) =>
                \A b \in Bits(last.pre) : b.kind = "cube" => b.ccnt = 0

\* C19: neo is present only with every bit at count == capacity; while it
\* is present no cube or panel owns a part (no cell, no merged cube, no
\* slab), and grow changes nothing.
C19_NeoInvariants ==
    /\ tr.neo =>
        /\ \A b \in Bits(tr) : b.ccnt = b.cmax
        /\ \A n \in Nodes(tr) : parts(n) = 0
        /\ sumParts(tr.bits) = 0
    /\ (last.op = "grow" /\ last.pre.neo) => tr = last.pre

\* grow was called on a merged trooper of level 2 or more.
C19_Witness ==
    /\ last.op = "grow"
    /\ last.pre.neo
    /\ tr.neo
    /\ tr.lvl >= 2

\* C20: held from any state, grow merges the trooper (neo) in the end, and
\* when neo was absent with exactly (the sum of the capacities - health + 1)
\* calls, health going up by one per call before; held from any state,
\* shrink brings health to 0 in the end.
C20_RunsEnd ==
    /\ [](dir = "grow" =>
            /\ ~last.from.neo =>
                (tr.neo <=> run = sumCaps(tr.bits) - last.from.health + 1)
            /\ ~tr.neo => health(tr) = last.from.health + run)
    /\ (dir = "grow") ~> tr.neo
    /\ (dir = "shrink") ~> (health(tr) = 0)

\* After calls in any order KP+ was held until the trooper of level 2 or
\* more merged, then KP- until it was empty.
C20_Witness ==
    /\ dir = "shrink"
    /\ last.op = "shrink"
    /\ last.from.neo
    /\ mix > 0
    /\ tr.lvl >= 2
    /\ run > sumCaps(tr.bits) - 2
    /\ health(tr) = 0

====
